---- MODULE Spec2Model ----
\* Model of the Singer pipeline runner (orchestrate/singer/meltano-singer.py)
\* and of the plugin configuration test of the API
\* (src/meltano/api/controllers/orchestrations.py).
\*
\* Assumptions: the executables and the config templates exist (Popen and
\* open() of a template do not raise); the tap does not write state.json, it
\* only receives its path.
EXTENDS Integers, Sequences, FiniteSets, TLC

\* ------------------------------------------------------------------ bounds
MaxLen == 2          \* longest file content, in bytes
MaxExit == 2         \* exit codes are 0..MaxExit
MaxLines == 3        \* longest plugin output, in lines

\* two byte values stand for all of them: the runner never reads the bytes
\* of a state file, it only tests the size and renames
Bytes == {0, 1}
ExitCodes == 0..MaxExit
None == -1

\* ------------------------------------------------------------------ files
Contents == UNION {[1..n -> Bytes] : n \in 0..MaxLen}
Absent == [exists |-> FALSE, data |-> <<>>]
FileOf(c) == [exists |-> TRUE, data |-> c]
Files == {Absent} \cup {FileOf(c) : c \in Contents}

\* variant: the file is opened without truncation ("a+")
open_a(f) == IF f.exists THEN f ELSE FileOf(<<>>)
\* Path.open("w+"): creates the file or truncates it to zero bytes
open_w(f) == FileOf(<<>>)

\* variant: tests existence only
file_has_data_exists(f) == f.exists
\* file_has_data: the file exists and its size is not zero
file_has_data(f) == f.exists /\ Len(f.data) > 0

\* variant: the rename goes the other way
replace_reversed(src, dst) == <<dst, Absent>>
\* Path.replace(target): renames src over dst; src no longer exists
\* (the pair is <<src, dst>> after the call)
replace(src, dst) == <<Absent, src>>

\* what a target may write, in the two byte values: byte 1 stands for the
\* envelope {"type": "STATE", "value": ...} of a STATE message and byte 0 for
\* a value payload such as {"bookmark": 42}
StatePayload == <<0>>
\* the STATE line that carries payload v
StateMessage(v) == <<1>> \o v
IsStateMessage(c) == Len(c) > 0 /\ c[1] = 1
\* the "value" member of a STATE line
StateValue(c) == Tail(c)

\* the run directory's three config destinations
ConfigFiles == {"tap.config.json", "tap.properties.json", "target.config.json"}

\* ------------------------------------------------------------------ python values
NoExc == [type |-> "none", name |-> "", code |-> None]
\* f"{name} exited with {code}": a str
FString(name, code) == [type |-> "str", name |-> name, code |-> code]
\* the raise statement: an operand that is not a BaseException instance or
\* class makes the statement itself raise TypeError("exceptions must derive
\* from BaseException"); the operand is lost
PyRaise(v) ==
    IF v.type = "str"
    THEN [type |-> "TypeError", name |-> "", code |-> None]
    ELSE v

\* ------------------------------------------------------------------ processes
NoProc == [st |-> "none", code |-> None]
Running == [st |-> "running", code |-> None]
Exited(c) == [st |-> "exited", code |-> c]

VARIABLES
    state_json,       \* tap_files['state']   : RUN_DIR/state.json
    new_state_json,   \* target_files['state']: RUN_DIR/new_state.json
    cfg,              \* the three config destinations: absent/empty/complete
    envsubst,         \* per destination, whether an envsubst child is writing it
    pc,               \* position of the runner
    caller,           \* the method entered from outside: run/prepare/invoke/bookmark
    tap_args,         \* command line of the tap, as built by invoke
    p_tap, p_tee, p_target,
    tap_code, target_code,
    raised,           \* the exception that left the outermost call
    run_in,           \* state.json as it was when the outermost call started
    target_out,       \* bytes the current target process has written to its stdout
    bookmark_ran,     \* bookmark() was entered during the outermost call
    wr_tee_in,        \* who holds an open write end of the pipe into tee's stdin
    wr_target_in,     \* who holds an open write end of the pipe into the target's stdin
    invoke_ran,       \* invoke() was entered during the outermost call
    \* ---- configuration test
    v_pc,             \* position of test_plugin_configuration
    plugin_out,       \* lines the plugin will still write
    plugin_closes,    \* whether the plugin closes its output after them
    buf,              \* StreamReader buffer: lines written and not yet read
    eof,              \* feed_eof() was called on the StreamReader
    process,          \* the local variable `process` and the child's state
    message,          \* the local variable `message` of test_stream
    lines_read,       \* number of readline() calls that returned
    record_at,        \* value of lines_read when the first RECORD was read
    success,          \* result of test_extractor
    escaped,          \* exception that left test_extractor
    terminated,       \* terminate() was issued on the child
    logged,           \* logging.debug(err) ran in the finally clause
    response,         \* the HTTP response body's is_success
    \* ---- overlapping runs in one RUN_DIR, per run
    c_pc,             \* position of the run
    c_tap_code,       \* tap_code of the run
    c_target_code,    \* target_code of the run
    c_out,            \* bytes the run's target has written to its stdout
    c_loc             \* where the file behind the target's stdout is now

runner_vars == <<state_json, new_state_json, cfg, envsubst, pc, caller,
                 tap_args, p_tap, p_tee, p_target, tap_code, target_code,
                 raised, run_in, target_out, bookmark_ran, invoke_ran,
                 wr_tee_in, wr_target_in>>
validator_vars == <<v_pc, plugin_out, plugin_closes, buf, eof, process,
                    message, lines_read, record_at, success, escaped,
                    terminated, logged, response>>
conc_vars == <<c_pc, c_tap_code, c_target_code, c_out, c_loc>>
vars == <<runner_vars, validator_vars, conc_vars>>

\* ================================================================== runner
Methods == {"run", "prepare", "invoke", "bookmark"}

files_vars == <<state_json, new_state_json>>
cfg_vars == <<cfg, envsubst>>
proc_vars == <<p_tap, p_tee, p_target>>
pipe_vars == <<wr_tee_in, wr_target_in>>
code_vars == <<tap_code, target_code>>
ghost_vars == <<run_in, bookmark_ran, invoke_ran>>

InitRunnerVars ==
    /\ state_json \in Files
    /\ new_state_json \in Files
    /\ cfg = [f \in ConfigFiles |-> "absent"]
    /\ envsubst = [f \in ConfigFiles |-> FALSE]
    /\ pc = "idle"
    /\ caller = "none"
    /\ tap_args = <<>>
    /\ p_tap = NoProc /\ p_tee = NoProc /\ p_target = NoProc
    /\ tap_code = None /\ target_code = None
    /\ raised = NoExc
    /\ run_in = state_json
    /\ target_out = <<>>
    /\ bookmark_ran = FALSE
    /\ invoke_ran = FALSE
    /\ wr_tee_in = {} /\ wr_target_in = {}

\* where a method continues once it returned normally
AfterPrepare == IF caller = "run" THEN "invoke" ELSE "idle"
AfterInvoke == IF caller = "run" THEN "bookmark" ELSE "idle"

\* a caller (main, or a user of the class) enters one of the methods; the
\* locals of an earlier call (command line, Popen objects, exit codes) are gone
Call(m) ==
    /\ pc = "idle"
    /\ caller' = m
    /\ pc' = IF m = "run" THEN "prepare" ELSE m
    /\ raised' = NoExc
    /\ run_in' = state_json
    /\ bookmark_ran' = FALSE
    /\ invoke_ran' = FALSE
    /\ tap_args' = <<>>
    /\ p_tap' = NoProc /\ p_tee' = NoProc /\ p_target' = NoProc
    /\ tap_code' = None /\ target_code' = None
    /\ target_out' = <<>>
    /\ wr_tee_in' = {} /\ wr_target_in' = {}
    /\ UNCHANGED <<files_vars, cfg_vars>>
    /\ UNCHANGED <<validator_vars, conc_vars>>

\* prepare: for each destination, open it "w+" and start an envsubst child
\* on it; the child is not waited for
Prepare ==
    /\ pc = "prepare"
    /\ cfg' = [f \in ConfigFiles |-> "empty"]
    /\ envsubst' = [f \in ConfigFiles |-> TRUE]
    /\ pc' = AfterPrepare
    /\ UNCHANGED <<files_vars, caller, tap_args, proc_vars, pipe_vars, code_vars,
                   raised, ghost_vars, target_out>>
    /\ UNCHANGED <<validator_vars, conc_vars>>

\* an envsubst child writes the substituted document and exits
EnvsubstFinish(f) ==
    /\ envsubst[f]
    /\ cfg' = [cfg EXCEPT ![f] = "complete"]
    /\ envsubst' = [envsubst EXCEPT ![f] = FALSE]
    /\ UNCHANGED <<files_vars, pc, caller, tap_args, proc_vars, pipe_vars,
                   code_vars, raised, ghost_vars, target_out>>
    /\ UNCHANGED <<validator_vars, conc_vars>>

BaseTapArgs == <<"tap", "-c", "tap.config.json", "--catalog", "tap.properties.json">>
StateArgs == <<"--state", "state.json">>

\* variant: --state is passed whenever the file exists
TapArgs_exists(f) == IF f.exists THEN BaseTapArgs \o StateArgs ELSE BaseTapArgs
\* invoke, lines 56-63: the tap's command line
TapArgs(f) == IF file_has_data(f) THEN BaseTapArgs \o StateArgs ELSE BaseTapArgs

\* invoke, lines 56-75: the command lines
InvokeBuildArgs ==
    /\ pc = "invoke"
    /\ tap_args' = TapArgs(state_json)
    /\ invoke_ran' = TRUE
    /\ pc' = "popen_target"
    /\ UNCHANGED <<files_vars, cfg_vars, caller, proc_vars, pipe_vars, code_vars, raised,
                   run_in, bookmark_ran, target_out>>
    /\ UNCHANGED <<validator_vars, conc_vars>>

\* invoke, lines 77-79: new_state.json is opened "w+" and becomes the
\* target's stdout; stdin=PIPE leaves the write end, p_target.stdin, with the
\* parent
PopenTarget ==
    /\ pc = "popen_target"
    /\ new_state_json' = open_w(new_state_json)
    /\ target_out' = <<>>
    /\ p_target' = Running
    /\ wr_target_in' = {"parent"}
    /\ wr_tee_in' = wr_tee_in
    /\ pc' = "popen_tee"
    /\ UNCHANGED <<state_json, cfg_vars, caller, tap_args, p_tap, p_tee,
                   code_vars, raised, ghost_vars>>
    /\ UNCHANGED <<validator_vars, conc_vars>>

\* invoke, lines 81-83: tee inherits p_target.stdin as its stdout, the parent
\* keeps its own handle on it; stdin=PIPE leaves p_tee.stdin with the parent
PopenTee ==
    /\ pc = "popen_tee"
    /\ p_tee' = Running
    /\ wr_target_in' = wr_target_in \cup {"tee"}
    /\ wr_tee_in' = {"parent"}
    /\ pc' = "popen_tap"
    /\ UNCHANGED <<files_vars, cfg_vars, caller, tap_args, p_tap, p_target,
                   code_vars, raised, ghost_vars, target_out>>
    /\ UNCHANGED <<validator_vars, conc_vars>>

\* invoke, lines 85-86: the tap inherits p_tee.stdin as its stdout, the
\* parent keeps its own handle on it
PopenTap ==
    /\ pc = "popen_tap"
    /\ p_tap' = Running
    /\ wr_tee_in' = wr_tee_in \cup {"tap"}
    /\ wr_target_in' = wr_target_in
    /\ pc' = "wait_tap"
    /\ UNCHANGED <<files_vars, cfg_vars, caller, tap_args, p_tee, p_target,
                   code_vars, raised, ghost_vars, target_out>>
    /\ UNCHANGED <<validator_vars, conc_vars>>

\* variant: a failed tap is reported as soon as it is seen
WaitTap_raise_early ==
    /\ pc = "wait_tap"
    /\ p_tap.st = "exited"
    /\ tap_code' = p_tap.code
    /\ IF p_tap.code # 0
       THEN /\ raised' = PyRaise(FString("Tap", p_tap.code))
            /\ pc' = "idle"
       ELSE /\ raised' = raised
            /\ pc' = "wait_target"
    /\ UNCHANGED <<files_vars, cfg_vars, caller, tap_args, proc_vars, pipe_vars,
                   target_code, ghost_vars, target_out>>
    /\ UNCHANGED <<validator_vars, conc_vars>>

\* invoke, line 89: blocks until the tap has exited
WaitTap ==
    /\ pc = "wait_tap"
    /\ p_tap.st = "exited"
    /\ tap_code' = p_tap.code
    /\ pc' = "wait_target"
    /\ UNCHANGED <<files_vars, cfg_vars, caller, tap_args, proc_vars, pipe_vars,
                   target_code, raised, ghost_vars, target_out>>
    /\ UNCHANGED <<validator_vars, conc_vars>>

\* invoke, line 90: blocks until the target has exited
WaitTarget ==
    /\ pc = "wait_target"
    /\ p_target.st = "exited"
    /\ target_code' = p_target.code
    /\ pc' = "check"
    /\ UNCHANGED <<files_vars, cfg_vars, caller, tap_args, proc_vars, pipe_vars,
                   tap_code, raised, ghost_vars, target_out>>
    /\ UNCHANGED <<validator_vars, conc_vars>>

\* variant: only the tap's exit code is tested
InvokeCheck_ignore_target ==
    /\ pc = "check"
    /\ IF tap_code # 0
       THEN /\ raised' = PyRaise(FString("Tap", tap_code))
            /\ pc' = "idle"
       ELSE /\ raised' = raised
            /\ pc' = AfterInvoke
    /\ UNCHANGED <<files_vars, cfg_vars, caller, tap_args, proc_vars, pipe_vars,
                   code_vars, ghost_vars, target_out>>
    /\ UNCHANGED <<validator_vars, conc_vars>>

\* variant: a failed relay fails the run as well
InvokeCheck_tee ==
    /\ pc = "check"
    /\ IF tap_code # 0
       THEN /\ raised' = PyRaise(FString("Tap", tap_code))
            /\ pc' = "idle"
       ELSE IF target_code # 0
       THEN /\ raised' = PyRaise(FString("Target", target_code))
            /\ pc' = "idle"
       ELSE IF p_tee.st = "exited" /\ p_tee.code # 0
       THEN /\ raised' = PyRaise(FString("Tee", p_tee.code))
            /\ pc' = "idle"
       ELSE /\ raised' = raised
            /\ pc' = AfterInvoke
    /\ UNCHANGED <<files_vars, cfg_vars, caller, tap_args, proc_vars, pipe_vars,
                   code_vars, ghost_vars, target_out>>
    /\ UNCHANGED <<validator_vars, conc_vars>>

\* invoke, lines 92-96
InvokeCheck ==
    /\ pc = "check"
    /\ IF tap_code # 0
       THEN /\ raised' = PyRaise(FString("Tap", tap_code))
            /\ pc' = "idle"
       ELSE IF target_code # 0
       THEN /\ raised' = PyRaise(FString("Target", target_code))
            /\ pc' = "idle"
       ELSE /\ raised' = raised
            /\ pc' = AfterInvoke
    /\ UNCHANGED <<files_vars, cfg_vars, caller, tap_args, proc_vars, pipe_vars,
                   code_vars, ghost_vars, target_out>>
    /\ UNCHANGED <<validator_vars, conc_vars>>

\* variant: the outgoing state is promoted without looking at its size
Bookmark_unguarded ==
    /\ pc = "bookmark"
    /\ bookmark_ran' = TRUE
    /\ IF ~new_state_json.exists
       THEN UNCHANGED files_vars
       ELSE /\ new_state_json' = replace(new_state_json, state_json)[1]
            /\ state_json' = replace(new_state_json, state_json)[2]
    /\ pc' = "idle"
    /\ UNCHANGED <<cfg_vars, caller, tap_args, proc_vars, pipe_vars, code_vars, raised,
                   run_in, invoke_ran, target_out>>
    /\ UNCHANGED <<validator_vars, conc_vars>>

\* variant: the value of the STATE line is stored, not the line
Bookmark_value ==
    /\ pc = "bookmark"
    /\ bookmark_ran' = TRUE
    /\ IF ~file_has_data(new_state_json)
       THEN UNCHANGED files_vars
       ELSE /\ new_state_json' = Absent
            /\ state_json' = IF IsStateMessage(new_state_json.data)
                             THEN FileOf(StateValue(new_state_json.data))
                             ELSE new_state_json
    /\ pc' = "idle"
    /\ UNCHANGED <<cfg_vars, caller, tap_args, proc_vars, pipe_vars, code_vars, raised,
                   run_in, invoke_ran, target_out>>
    /\ UNCHANGED <<validator_vars, conc_vars>>

\* bookmark, lines 103-107
Bookmark ==
    /\ pc = "bookmark"
    /\ bookmark_ran' = TRUE
    /\ IF ~file_has_data(new_state_json)
       THEN UNCHANGED files_vars
       ELSE /\ new_state_json' = replace(new_state_json, state_json)[1]
            /\ state_json' = replace(new_state_json, state_json)[2]
    /\ pc' = "idle"
    /\ UNCHANGED <<cfg_vars, caller, tap_args, proc_vars, pipe_vars, code_vars, raised,
                   run_in, invoke_ran, target_out>>
    /\ UNCHANGED <<validator_vars, conc_vars>>

\* ---- the children; a child that exits closes the descriptors it holds
TapExit(c) ==
    /\ p_tap.st = "running"
    /\ p_tap' = Exited(c)
    /\ wr_tee_in' = wr_tee_in \ {"tap"}
    /\ wr_target_in' = wr_target_in
    /\ UNCHANGED <<files_vars, cfg_vars, pc, caller, tap_args, p_tee,
                   p_target, code_vars, raised, ghost_vars, target_out>>
    /\ UNCHANGED <<validator_vars, conc_vars>>

TeeExit(c) ==
    /\ p_tee.st = "running"
    /\ p_tee' = Exited(c)
    /\ wr_target_in' = wr_target_in \ {"tee"}
    /\ wr_tee_in' = wr_tee_in
    /\ UNCHANGED <<files_vars, cfg_vars, pc, caller, tap_args, p_tap,
                   p_target, code_vars, raised, ghost_vars, target_out>>
    /\ UNCHANGED <<validator_vars, conc_vars>>

TargetExit(c) ==
    /\ p_target.st = "running"
    /\ p_target' = Exited(c)
    /\ UNCHANGED pipe_vars
    /\ UNCHANGED <<files_vars, cfg_vars, pc, caller, tap_args, p_tap,
                   p_tee, code_vars, raised, ghost_vars, target_out>>
    /\ UNCHANGED <<validator_vars, conc_vars>>

\* the target writes one byte to its stdout, the file opened by PopenTarget
TargetWrite(b) ==
    /\ p_target.st = "running"
    /\ Len(new_state_json.data) < MaxLen
    /\ new_state_json' = FileOf(Append(new_state_json.data, b))
    /\ target_out' = Append(target_out, b)
    /\ UNCHANGED <<state_json, cfg_vars, pc, caller, tap_args, proc_vars, pipe_vars,
                   code_vars, raised, ghost_vars>>
    /\ UNCHANGED <<validator_vars, conc_vars>>

\* ================================================================== configuration test
\* lines a plugin may write on its stdout
RecordLine == "{\"type\": \"RECORD\", \"record\": {}}"
SchemaLine == "{\"type\": \"SCHEMA\", \"schema\": {}}"
StateLine == "{\"type\": \"STATE\", \"value\": {}}"
NoTypeLine == "{\"stream\": \"users\"}"
BadLine == "Traceback (most recent call last):"
EmptyLine == ""
PluginLines == {RecordLine, SchemaLine, StateLine, NoTypeLine, BadLine}
PluginOutputs == UNION {[1..n -> PluginLines] : n \in 0..MaxLines}

\* json.loads: the decoded object, or JSONDecodeError
json_loads(m) ==
    CASE m = RecordLine -> [err |-> "", keys |-> {"type", "record"}, type |-> "RECORD"]
      [] m = SchemaLine -> [err |-> "", keys |-> {"type", "schema"}, type |-> "SCHEMA"]
      [] m = StateLine  -> [err |-> "", keys |-> {"type", "value"}, type |-> "STATE"]
      [] m = NoTypeLine -> [err |-> "", keys |-> {"stream"}, type |-> ""]
      [] OTHER          -> [err |-> "JSONDecodeError", keys |-> {}, type |-> ""]

\* json_dict["type"]: the value, or KeyError
getitem_type(d) ==
    IF "type" \in d.keys
    THEN [err |-> "", value |-> d.type]
    ELSE [err |-> "KeyError", value |-> ""]

\* names bound at module level by the import statements, lines 1-31
ModuleNames ==
    {"asyncio", "json", "logging", "Blueprint", "request", "url_for",
     "jsonify", "make_response", "Response", "JobFinder", "State",
     "Canonical", "PluginRef", "Profile", "PluginExecutionError",
     "PluginLacksCapabilityError", "PluginSettingsService",
     "PluginSettingValueSource", "PluginDiscoveryService", "invoker_factory",
     "PluginInstallService", "Project", "ProjectAddService", "ConfigService",
     "ScheduleService", "ScheduleAlreadyExistsError",
     "ScheduleDoesNotExistError", "flatten", "iso8601_datetime", "slugify",
     "JobLoggingService", "MissingJobLogException", "extractor", "db",
     "freeze_keys", "run_elt"}

\* variant: the handler names the launch error only
ExceptionClasses_narrow == {"PluginExecutionError"}
\* every exception the modelled statements raise is a subclass of Exception
ExceptionClasses == {"PluginExecutionError", "JSONDecodeError", "KeyError"}

InitValidatorVars ==
    /\ v_pc = "start"
    /\ plugin_out \in PluginOutputs
    /\ plugin_closes \in BOOLEAN
    /\ buf = <<>>
    /\ eof = FALSE
    /\ process = "unbound"
    /\ message = EmptyLine
    /\ lines_read = 0
    /\ record_at = None
    /\ success = "none"
    /\ escaped = ""
    /\ terminated = FALSE
    /\ logged = FALSE
    /\ response = "none"

plugin_vars == <<plugin_out, plugin_closes, buf, eof>>
read_vars == <<message, lines_read, record_at>>

\* test_extractor, lines 245-253: the invoker is built and prepared and the
\* plugin is started; any of these may raise
Launch(ok) ==
    /\ v_pc = "start"
    /\ IF ok
       THEN /\ process' = "running"
            /\ v_pc' = "at_eof"
            /\ escaped' = escaped
       ELSE /\ process' = process
            /\ v_pc' = "except"
            /\ escaped' = "PluginExecutionError"
    /\ UNCHANGED <<plugin_vars, read_vars, success, terminated, logged,
                   response>>
    /\ UNCHANGED <<runner_vars, conc_vars>>

\* test_stream, line 235 and 241
TestStreamAtEof ==
    /\ v_pc = "at_eof"
    /\ IF eof /\ buf = <<>>
       THEN /\ success' = "False"
            /\ v_pc' = "finally"
       ELSE /\ success' = success
            /\ v_pc' = "readline"
    /\ UNCHANGED <<plugin_vars, read_vars, process, escaped, terminated,
                   logged, response>>
    /\ UNCHANGED <<runner_vars, conc_vars>>

\* variant: a RECORD is noted and the loop goes on to the end of input
TestStreamReadline_drain ==
    /\ v_pc = "readline"
    /\ buf # <<>> \/ eof
    /\ LET m == IF buf # <<>> THEN Head(buf) ELSE EmptyLine
           json_dict == json_loads(m)
           type == getitem_type(json_dict)
       IN /\ message' = m
          /\ buf' = IF buf # <<>> THEN Tail(buf) ELSE buf
          /\ lines_read' = lines_read + 1
          /\ IF json_dict.err # ""
             THEN /\ escaped' = json_dict.err
                  /\ v_pc' = "except"
                  /\ UNCHANGED <<success, record_at>>
             ELSE IF type.err # ""
             THEN /\ escaped' = type.err
                  /\ v_pc' = "except"
                  /\ UNCHANGED <<success, record_at>>
             ELSE IF type.value = "RECORD" /\ record_at = None
             THEN /\ success' = "True"
                  /\ record_at' = lines_read + 1
                  /\ v_pc' = "at_eof"
                  /\ escaped' = escaped
             ELSE /\ v_pc' = "at_eof"
                  /\ UNCHANGED <<success, record_at, escaped>>
    /\ UNCHANGED <<plugin_out, plugin_closes, eof, process, terminated,
                   logged, response>>
    /\ UNCHANGED <<runner_vars, conc_vars>>

\* variant: a line that does not decode, or has no "type", is skipped
TestStreamReadline_skip ==
    /\ v_pc = "readline"
    /\ buf # <<>> \/ eof
    /\ LET m == IF buf # <<>> THEN Head(buf) ELSE EmptyLine
           json_dict == json_loads(m)
           type == getitem_type(json_dict)
       IN /\ message' = m
          /\ buf' = IF buf # <<>> THEN Tail(buf) ELSE buf
          /\ lines_read' = lines_read + 1
          /\ IF json_dict.err = "" /\ type.err = "" /\ type.value = "RECORD"
             THEN /\ success' = "True"
                  /\ record_at' = lines_read + 1
                  /\ v_pc' = "finally"
                  /\ escaped' = escaped
             ELSE /\ v_pc' = "at_eof"
                  /\ UNCHANGED <<success, record_at, escaped>>
    /\ UNCHANGED <<plugin_out, plugin_closes, eof, process, terminated,
                   logged, response>>
    /\ UNCHANGED <<runner_vars, conc_vars>>

\* variant: a read that finds nothing gives up with a timeout
TestStreamReadline_timeout ==
    /\ v_pc = "readline"
    /\ LET m == IF buf # <<>> THEN Head(buf) ELSE EmptyLine
           json_dict == json_loads(m)
           type == getitem_type(json_dict)
       IN /\ message' = m
          /\ buf' = IF buf # <<>> THEN Tail(buf) ELSE buf
          /\ lines_read' = lines_read + 1
          /\ IF json_dict.err # ""
             THEN /\ escaped' = json_dict.err
                  /\ v_pc' = "except"
                  /\ UNCHANGED <<success, record_at>>
             ELSE IF type.err # ""
             THEN /\ escaped' = type.err
                  /\ v_pc' = "except"
                  /\ UNCHANGED <<success, record_at>>
             ELSE IF type.value = "RECORD"
             THEN /\ success' = "True"
                  /\ record_at' = lines_read + 1
                  /\ v_pc' = "finally"
                  /\ escaped' = escaped
             ELSE /\ v_pc' = "at_eof"
                  /\ UNCHANGED <<success, record_at, escaped>>
    /\ UNCHANGED <<plugin_out, plugin_closes, eof, process, terminated,
                   logged, response>>
    /\ UNCHANGED <<runner_vars, conc_vars>>

\* test_stream, lines 236-239: readline() returns the next line, or b"" at
\* end of input; the line is decoded and its type is tested
TestStreamReadline ==
    /\ v_pc = "readline"
    /\ buf # <<>> \/ eof
    /\ LET m == IF buf # <<>> THEN Head(buf) ELSE EmptyLine
           json_dict == json_loads(m)
           type == getitem_type(json_dict)
       IN /\ message' = m
          /\ buf' = IF buf # <<>> THEN Tail(buf) ELSE buf
          /\ lines_read' = lines_read + 1
          /\ IF json_dict.err # ""
             THEN /\ escaped' = json_dict.err
                  /\ v_pc' = "except"
                  /\ UNCHANGED <<success, record_at>>
             ELSE IF type.err # ""
             THEN /\ escaped' = type.err
                  /\ v_pc' = "except"
                  /\ UNCHANGED <<success, record_at>>
             ELSE IF type.value = "RECORD"
             THEN /\ success' = "True"
                  /\ record_at' = lines_read + 1
                  /\ v_pc' = "finally"
                  /\ escaped' = escaped
             ELSE /\ v_pc' = "at_eof"
                  /\ UNCHANGED <<success, record_at, escaped>>
    /\ UNCHANGED <<plugin_out, plugin_closes, eof, process, terminated,
                   logged, response>>
    /\ UNCHANGED <<runner_vars, conc_vars>>

\* test_extractor, lines 255-257: except Exception
Except ==
    /\ v_pc = "except"
    /\ IF escaped \in ExceptionClasses
       THEN /\ success' = "False"
            /\ escaped' = ""
       ELSE UNCHANGED <<success, escaped>>
    /\ v_pc' = "finally"
    /\ UNCHANGED <<plugin_vars, read_vars, process, terminated, logged,
                   response>>
    /\ UNCHANGED <<runner_vars, conc_vars>>

\* variant: the finally clause has no try/except of its own
Finally_unguarded ==
    /\ v_pc = "finally"
    /\ IF process = "unbound"
       THEN /\ escaped' = "UnboundLocalError"
            /\ v_pc' = "raised"
            /\ UNCHANGED <<process, terminated>>
       ELSE IF "psutil" \notin ModuleNames
       THEN /\ escaped' = "NameError"
            /\ v_pc' = "raised"
            /\ UNCHANGED <<process, terminated>>
       ELSE IF process = "running"
       THEN /\ process' = "terminated"
            /\ terminated' = TRUE
            /\ escaped' = escaped
            /\ v_pc' = IF escaped = "" THEN "respond" ELSE "raised"
       ELSE /\ escaped' = "NoSuchProcess"
            /\ v_pc' = "raised"
            /\ UNCHANGED <<process, terminated>>
    /\ UNCHANGED <<plugin_vars, read_vars, success, logged, response>>
    /\ UNCHANGED <<runner_vars, conc_vars>>

\* test_extractor, lines 258-263: reading an unbound local raises
\* UnboundLocalError, a name that no import binds raises NameError; both are
\* caught by the inner except and logged
Finally ==
    /\ v_pc = "finally"
    /\ IF process = "unbound"
       THEN /\ logged' = TRUE
            /\ UNCHANGED <<process, terminated>>
       ELSE IF "psutil" \notin ModuleNames
       THEN /\ logged' = TRUE
            /\ UNCHANGED <<process, terminated>>
       ELSE IF process = "running"
       THEN /\ process' = "terminated"
            /\ terminated' = TRUE
            /\ logged' = logged
       ELSE /\ logged' = TRUE
            /\ UNCHANGED <<process, terminated>>
    /\ v_pc' = IF escaped = "" THEN "respond" ELSE "raised"
    /\ UNCHANGED <<plugin_vars, read_vars, success, escaped, response>>
    /\ UNCHANGED <<runner_vars, conc_vars>>

\* test_plugin_configuration, lines 265-268
Respond ==
    /\ v_pc = "respond"
    /\ response' = success
    /\ v_pc' = "done"
    /\ UNCHANGED <<plugin_vars, read_vars, process, success, escaped,
                   terminated, logged>>
    /\ UNCHANGED <<runner_vars, conc_vars>>

\* ---- the plugin
PluginWrite ==
    /\ process = "running"
    /\ plugin_out # <<>>
    /\ buf' = Append(buf, Head(plugin_out))
    /\ plugin_out' = Tail(plugin_out)
    /\ UNCHANGED <<v_pc, plugin_closes, eof, process, read_vars, success,
                   escaped, terminated, logged, response>>
    /\ UNCHANGED <<runner_vars, conc_vars>>

\* the plugin has written all it had to and exits, which closes its stdout
PluginExit ==
    /\ process = "running"
    /\ plugin_out = <<>>
    /\ plugin_closes
    /\ process' = "exited"
    /\ eof' = TRUE
    /\ UNCHANGED <<v_pc, plugin_out, plugin_closes, buf, read_vars, success,
                   escaped, terminated, logged, response>>
    /\ UNCHANGED <<runner_vars, conc_vars>>

\* ================================================================== specifications
\* ================================================================== specifications
\* two processes execute run() on the same RUN_DIR: nothing in the class
\* takes a lock on it
Runs == {"A", "B"}
\* no run has started
InitConcVars ==
    /\ c_pc = [r \in Runs |-> "start"]
    /\ c_tap_code = [r \in Runs |-> None]
    /\ c_target_code = [r \in Runs |-> None]
    /\ c_out = [r \in Runs |-> <<>>]
    /\ c_loc = [r \in Runs |-> "none"]

ValidatorIdle ==
    /\ InitValidatorVars
    /\ plugin_out = <<>>
    /\ plugin_closes = TRUE

InitRunner == InitRunnerVars /\ ValidatorIdle /\ InitConcVars

NextRunner ==
    \/ \E m \in Methods : Call(m)
    \/ Prepare
    \/ \E f \in ConfigFiles : EnvsubstFinish(f)
    \/ InvokeBuildArgs
    \/ PopenTarget
    \/ PopenTee
    \/ PopenTap
    \/ WaitTap
    \/ WaitTarget
    \/ InvokeCheck
    \/ Bookmark
    \/ \E c \in ExitCodes : TapExit(c)
    \/ \E c \in ExitCodes : TeeExit(c)
    \/ \E c \in ExitCodes : TargetExit(c)
    \/ \E b \in Bytes : TargetWrite(b)

SpecRunner == InitRunner /\ [][NextRunner]_vars

RunnerIdle ==
    /\ InitRunnerVars
    /\ state_json = Absent
    /\ new_state_json = Absent

InitValidator == InitValidatorVars /\ RunnerIdle /\ InitConcVars

NextValidator ==
    \/ \E ok \in BOOLEAN : Launch(ok)
    \/ TestStreamAtEof
    \/ TestStreamReadline
    \/ Except
    \/ Finally
    \/ Respond
    \/ PluginWrite
    \/ PluginExit

SpecValidator == InitValidator /\ [][NextValidator]_vars

\* run_until_complete drives the coroutine until it returns and the
\* operating system schedules the plugin: a step that stays possible is taken
SpecValidatorFair == SpecValidator /\ WF_vars(NextValidator)

\* ================================================================== overlapping runs
\* a byte never written reads as NUL
Hole == 0

\* all of SingerRunner's state but the two state files
single_vars == <<cfg_vars, pc, caller, tap_args, proc_vars, pipe_vars,
                 code_vars, raised, ghost_vars, target_out>>

\* write(2) of one byte at offset o of a file holding d
WriteAt(d, o, b) ==
    IF o < Len(d)
    THEN [d EXCEPT ![o + 1] = b]
    ELSE d \o [i \in 1..(o - Len(d)) |-> Hole] \o <<b>>

\* invoke, lines 77-86: new_state.json is created or emptied and the open
\* file becomes the stdout of this run's target
CPopen(r) ==
    /\ c_pc[r] = "start"
    /\ new_state_json' = open_w(new_state_json)
    /\ c_loc' = [c_loc EXCEPT ![r] = "new_state"]
    /\ c_pc' = [c_pc EXCEPT ![r] = "wait_tap"]
    /\ UNCHANGED <<state_json, c_tap_code, c_target_code, c_out>>
    /\ UNCHANGED <<single_vars, validator_vars>>

\* the run's target writes one byte at its own file offset, to the file it
\* was given, under whatever name that file has by now
CTargetWrite(r, b) ==
    /\ c_pc[r] \in {"wait_tap", "wait_target"}
    /\ Len(c_out[r]) < MaxLen
    /\ c_out' = [c_out EXCEPT ![r] = Append(@, b)]
    /\ CASE c_loc[r] = "new_state" ->
              /\ new_state_json' =
                    FileOf(WriteAt(new_state_json.data, Len(c_out[r]), b))
              /\ state_json' = state_json
         [] c_loc[r] = "state" ->
              /\ state_json' = FileOf(WriteAt(state_json.data, Len(c_out[r]), b))
              /\ new_state_json' = new_state_json
         [] OTHER -> UNCHANGED files_vars
    /\ UNCHANGED <<c_pc, c_tap_code, c_target_code, c_loc>>
    /\ UNCHANGED <<single_vars, validator_vars>>

\* invoke, line 89: the tap has exited with code c
CWaitTap(r, c) ==
    /\ c_pc[r] = "wait_tap"
    /\ c_tap_code' = [c_tap_code EXCEPT ![r] = c]
    /\ c_pc' = [c_pc EXCEPT ![r] = "wait_target"]
    /\ UNCHANGED <<files_vars, c_target_code, c_out, c_loc>>
    /\ UNCHANGED <<single_vars, validator_vars>>

\* invoke, lines 90-96, and run, lines 99-101: the target has exited with
\* code c; run goes on to bookmark() unless invoke raises
CWaitTarget(r, c) ==
    /\ c_pc[r] = "wait_target"
    /\ c_target_code' = [c_target_code EXCEPT ![r] = c]
    /\ c_loc' = [c_loc EXCEPT ![r] = "closed"]
    /\ c_pc' = [c_pc EXCEPT ![r] =
                  IF c_tap_code[r] # 0 \/ c # 0 THEN "done" ELSE "bookmark"]
    /\ UNCHANGED <<files_vars, c_tap_code, c_out>>
    /\ UNCHANGED <<single_vars, validator_vars>>

\* bookmark, lines 103-107: the rename moves the file every target has open
\* on new_state.json to state.json, and unlinks the former state.json
CBookmark(r) ==
    /\ c_pc[r] = "bookmark"
    /\ IF ~file_has_data(new_state_json)
       THEN UNCHANGED <<files_vars, c_loc>>
       ELSE /\ new_state_json' = replace(new_state_json, state_json)[1]
            /\ state_json' = replace(new_state_json, state_json)[2]
            /\ c_loc' = [q \in Runs |->
                           CASE c_loc[q] = "new_state" -> "state"
                             [] c_loc[q] = "state" -> "unlinked"
                             [] OTHER -> c_loc[q]]
    /\ c_pc' = [c_pc EXCEPT ![r] = "done"]
    /\ UNCHANGED <<c_tap_code, c_target_code, c_out>>
    /\ UNCHANGED <<single_vars, validator_vars>>

InitConcurrent == InitRunnerVars /\ ValidatorIdle /\ InitConcVars

NextConcurrent ==
    \/ \E r \in Runs : CPopen(r)
    \/ \E r \in Runs, b \in Bytes : CTargetWrite(r, b)
    \/ \E r \in Runs, c \in ExitCodes : CWaitTap(r, c)
    \/ \E r \in Runs, c \in ExitCodes : CWaitTarget(r, c)
    \/ \E r \in Runs : CBookmark(r)

SpecConcurrent == InitConcurrent /\ [][NextConcurrent]_vars

\* ================================================================== properties of the runner
RunDone == pc = "idle" /\ caller = "run"
\* a file that exists and holds at least one byte
NonEmpty(f) == f.exists /\ f.data # <<>>
TapFailed == p_tap.st = "exited" /\ p_tap.code # 0
TargetFailed == p_target.st = "exited" /\ p_target.code # 0
BothSucceeded ==
    /\ p_tap.st = "exited" /\ p_tap.code = 0
    /\ p_target.st = "exited" /\ p_target.code = 0
\* new_state.json as the target of the current call produced it
Outgoing == FileOf(target_out)

\* C1: a run() whose tap or target exited non-zero has raised, has not
\* entered bookmark(), and has left state.json as it was when run() started
\* (absent if it was absent).
C1_FailedRunKeepsState ==
    (RunDone /\ (TapFailed \/ TargetFailed)) =>
        /\ raised # NoExc
        /\ ~bookmark_ran
        /\ state_json = run_in

C1_Witness ==
    /\ RunDone
    /\ TargetFailed /\ ~TapFailed
    /\ NonEmpty(run_in)
    /\ NonEmpty(new_state_json)
    /\ new_state_json # run_in

\* C2: after a run() whose tap and target both exited 0 and whose target
\* wrote a non-empty output, state.json holds exactly what that target wrote.
C2_SuccessPromotesOutput ==
    (RunDone /\ BothSucceeded /\ target_out # <<>>) =>
        state_json = FileOf(target_out)

C2_Witness ==
    /\ RunDone
    /\ BothSucceeded
    /\ Len(target_out) = MaxLen
    /\ NonEmpty(run_in)
    /\ run_in.data # target_out

\* C3 as stated: after run N, state.json (what run N+1 will read) holds the
\* outgoing state of run N when run N fully succeeded, and the incoming
\* state of run N otherwise. Contents are compared, so that a missing file
\* and an empty one count as the same state.
C3_Original ==
    RunDone =>
        IF BothSucceeded
        THEN state_json.data = target_out
        ELSE state_json.data = run_in.data

\* C3 (amended): after run N, state.json equals the outgoing state of run N
\* if run N fully succeeded and its target wrote a non-empty output; in every
\* other case (a failed run, or a successful run with empty output) it is the
\* incoming state run N started with.
C3_NextIncoming ==
    RunDone =>
        IF BothSucceeded /\ target_out # <<>>
        THEN state_json = Outgoing
        ELSE state_json = run_in

C3_Witness ==
    /\ RunDone
    /\ BothSucceeded
    /\ target_out = <<>>
    /\ bookmark_ran
    /\ NonEmpty(state_json)
    /\ state_json = run_in

\* C4: a bookmark() that finds new_state.json missing or of zero bytes leaves
\* state.json as it is, and no step of prepare/invoke/bookmark, in any order
\* of calls, turns a state.json that has data into one that has none.
C4_NeverRegress ==
    [][/\ (pc = "bookmark" /\ ~NonEmpty(new_state_json))
            => state_json' = state_json
       /\ NonEmpty(state_json) => NonEmpty(state_json')]_vars

C4_Witness ==
    /\ pc = "idle"
    /\ bookmark_ran
    /\ new_state_json = FileOf(<<>>)
    /\ NonEmpty(state_json)

\* C5: the tap is launched with --state <state.json> exactly when state.json
\* existed with a non-zero size when the call began (nothing changes it until
\* the command line is built); otherwise its arguments are -c and --catalog
\* only.
C5_StateFlag ==
    p_tap.st # "none" =>
        IF NonEmpty(run_in)
        THEN tap_args = BaseTapArgs \o StateArgs
        ELSE tap_args = BaseTapArgs

C5_Witness ==
    /\ p_tap.st = "running"
    /\ run_in = FileOf(<<>>)
    /\ tap_args = BaseTapArgs

\* C6: the target's exit code is collected after the tap's, and invoke has
\* raised only once the target has exited and its code has been collected,
\* also when the tap failed.
C6_TargetObserved ==
    /\ target_code # None => tap_code # None
    /\ raised # NoExc =>
        /\ p_target.st = "exited"
        /\ target_code = p_target.code
        /\ tap_code = p_tap.code

C6_Witness ==
    /\ raised # NoExc
    /\ TapFailed
    /\ target_code = 0

\* C7: the exception that leaves invoke names the process that failed and
\* carries its exit code, so a tap failure and a target failure differ.
C7_Claim ==
    raised # NoExc =>
        \/ /\ TapFailed
           /\ raised.name = "Tap"
           /\ raised.code = p_tap.code
        \/ /\ ~TapFailed /\ TargetFailed
           /\ raised.name = "Target"
           /\ raised.code = p_target.code

\* ================================================================== properties of the configuration test
Returned == v_pc \in {"respond", "done"}

\* C8: once test_extractor has returned, the plugin process it launched is
\* not running any more.
C8_Claim ==
    Returned => process # "running"

\* C9: the first RECORD line read makes the result true at once, and no
\* readline() follows it, whatever the plugin still writes.
C9_StopsAtRecord ==
    /\ record_at # None =>
        /\ lines_read = record_at
        /\ success = "True"
        /\ v_pc \in {"finally", "respond", "done"}
    /\ (v_pc = "done" /\ record_at # None) => response = "True"

C9_Witness ==
    /\ v_pc = "done"
    /\ response = "True"
    /\ record_at = 2
    /\ Len(buf) + Len(plugin_out) > 0

\* C10: with no RECORD read, end of input, a failed launch, an undecodable
\* line and a line without "type" all make the result false; the response is
\* is_success=false and no exception leaves test_extractor.
C10_FalseWithoutRecord ==
    /\ v_pc # "raised"
    /\ (Returned /\ record_at = None) => success = "False"
    /\ (v_pc = "done" /\ record_at = None) => response = "False"

C10_Witness ==
    /\ v_pc = "done"
    /\ response = "False"
    /\ message = NoTypeLine
    /\ lines_read = 2

\* the last line read was not a JSON object with a "type"
DecodeFailed ==
    /\ lines_read > 0
    /\ message \in {NoTypeLine, BadLine}

\* C11 as stated: a line that does not decode ends the validation with a
\* decode error that reaches the caller, distinct from the plain false of an
\* exhausted stream.
C11_Original ==
    (DecodeFailed /\ v_pc \in {"finally", "respond", "done", "raised"}) =>
        escaped \in {"JSONDecodeError", "KeyError"}

\* C11 (amended): a line that fails to parse as JSON or lacks "type" is
\* never skipped: no further line is read after it; but the error is caught
\* inside test_extractor and the caller gets the same is_success=false as for
\* an exhausted stream, not a distinct decode error.
C11_DecodeErrorAbortsAsFalse ==
    /\ DecodeFailed => v_pc \in {"except", "finally", "respond", "done"}
    /\ (DecodeFailed /\ v_pc \in {"finally", "respond", "done"}) =>
        /\ success = "False"
        /\ escaped = ""
    /\ (DecodeFailed /\ v_pc = "done") => response = "False"

C11_Witness ==
    /\ v_pc = "done"
    /\ message = BadLine
    /\ lines_read = 1
    /\ Len(buf) + Len(plugin_out) > 0
    /\ response = "False"

\* ================================================================== further properties of the runner
\* C12: once prepare has returned inside run(), and so whenever invoke has
\* launched a process, each of the three config destinations holds the
\* complete substituted document.
C12_Claim ==
    (caller = "run" /\ pc \notin {"idle", "prepare"}) =>
        \A f \in ConfigFiles : cfg[f] = "complete"

\* C14: the pipe wiring lets end-of-input reach tee and the target: while
\* invoke waits, the parent holds no write end of either pipe, so once the
\* tap has exited nobody can write to tee's stdin, and once tee has exited
\* nobody can write to the target's stdin.
C14_Claim ==
    /\ pc \in {"wait_tap", "wait_target"} =>
          /\ "parent" \notin wr_tee_in
          /\ "parent" \notin wr_target_in
    /\ (pc = "wait_target" /\ p_tap.st = "exited") => wr_tee_in = {}
    /\ (pc = "wait_target" /\ p_tee.st = "exited") => wr_target_in = {}

\* C17: whether invoke raises depends on the exit codes of the tap and of
\* the target only; a run whose relay failed while both exited 0 is a
\* success and goes on to bookmark(), and invoke returns without the relay
\* having been waited for.
C17_TeeIgnored ==
    /\ (pc = "idle" /\ invoke_ran) => ((raised = NoExc) <=> BothSucceeded)
    /\ (RunDone /\ BothSucceeded) => bookmark_ran

C17_Witness ==
    /\ RunDone
    /\ BothSucceeded
    /\ p_tee.st = "exited" /\ p_tee.code # 0
    /\ raised = NoExc
    /\ bookmark_ran
    /\ state_json = FileOf(target_out)
    /\ state_json # run_in

\* C19: what bookmark() finds in new_state.json inside run() is what the
\* target of that same run wrote, whatever an earlier run or call left in
\* the file; so a state.json changed by run() holds that target's output.
C19_NoStaleState ==
    /\ (caller = "run" /\ pc = "bookmark") => new_state_json = FileOf(target_out)
    /\ (RunDone /\ state_json # run_in) => state_json = FileOf(target_out)

C19_Witness ==
    /\ RunDone
    /\ bookmark_ran
    /\ Len(target_out) = 1
    /\ state_json = FileOf(target_out)
    /\ state_json # run_in

\* C13 as stated: after a successful run() whose target wrote the STATE line
\* it received, state.json holds the value payload of that line.
C13_Original ==
    (RunDone /\ BothSucceeded /\ target_out = StateMessage(StatePayload)) =>
        state_json = FileOf(StatePayload)

\* C13 (amended): after a successful run() whose target wrote a STATE line
\* to its standard output, state.json holds that line as written, envelope
\* included; it holds the bare payload only when the target wrote the bare
\* payload.
C13_StateFileIsTargetOutput ==
    (RunDone /\ BothSucceeded /\ IsStateMessage(target_out)) =>
        /\ state_json = FileOf(target_out)
        /\ state_json.data # StateValue(target_out)

C13_Witness ==
    /\ RunDone
    /\ BothSucceeded
    /\ target_out = StateMessage(StatePayload)
    /\ state_json.data = StateMessage(StatePayload)
    /\ run_in = FileOf(StatePayload)

\* ================================================================== further properties of the configuration test
UnreadLines == buf \o plugin_out
\* the plugin will write a RECORD line or a line that does not decode, or
\* will close its output
WillEnd ==
    \/ plugin_closes
    \/ \E i \in 1..Len(UnreadLines) :
          UnreadLines[i] \in {RecordLine, NoTypeLine, BadLine}
\* readline() waits for a plugin that has nothing more to write and does not
\* close its output
Blocked ==
    /\ v_pc = "readline"
    /\ buf = <<>> /\ ~eof
    /\ plugin_out = <<>> /\ ~plugin_closes

\* C15: the test returns when the plugin writes a RECORD line, writes a line
\* that does not decode, or closes its output; when the plugin does none of
\* these the call stays blocked in readline() for ever, and the plugin is
\* running and is never terminated.
C15_NoTimeout ==
    /\ (v_pc = "at_eof" /\ WillEnd) ~> Returned
    /\ [][Blocked => Blocked']_vars
    /\ [](Blocked => (process = "running" /\ ~terminated))

C15_Witness ==
    /\ Blocked
    /\ process = "running"
    /\ lines_read = MaxLines

\* C16: a failure of the termination step, also when no process was
\* launched, is logged only: the finally clause leaves the result as it was
\* decided and no exception leaves test_extractor.
C16_TerminationFailureLogged ==
    /\ [](v_pc # "raised")
    /\ [][v_pc = "finally" =>
            /\ success' = success
            /\ v_pc' \in {"finally", "respond"}
            /\ (v_pc' = "respond" /\ ~terminated') => logged']_vars

C16_Witness ==
    /\ v_pc = "done"
    /\ process = "unbound"
    /\ logged
    /\ response = "False"

\* ================================================================== properties of overlapping runs
AllDone == \A r \in Runs : c_pc[r] = "done"
FullySuccessful(r) == c_tap_code[r] = 0 /\ c_target_code[r] = 0

\* C18: when two overlapping runs on one directory have both ended,
\* state.json is the prior bookmark, untouched, or the whole output of the
\* target of one run whose tap and target both exited 0.
C18_Claim ==
    AllDone =>
        \/ state_json = run_in
        \/ \E r \in Runs :
              /\ FullySuccessful(r)
              /\ state_json = FileOf(c_out[r])

====
